---- MODULE Spec2Model ----
(***************************************************************************)
(* Model of bookmark_sync.py: the canonical bookmark tree, the two format  *)
(* adapters (extract and create), merge_bookmark_trees and the run of      *)
(* main over the two bookmark files.                                       *)
(*                                                                         *)
(* Python values are modelled as follows.  A dict is a function from its   *)
(* keys (strings) to values, a list is a sequence, None is the string      *)
(* None.  merge_bookmark_trees mutates the dicts of its arguments in       *)
(* place; the model computes on values.  For two argument trees that share *)
(* no dict (main extracts them from two different files) the value the     *)
(* function returns is the same: a dict is mutated only while it is the    *)
(* value of merged_map, and a dict of tree2 is read by the loop only at    *)
(* its own iteration, before it can become such a value.                   *)
(***************************************************************************)
EXTENDS Integers, Sequences, FiniteSets, TLC

VARIABLES
    pc,                   \* the statement to run next
    failed_at,            \* the pc at which an exception ended the run
    safari_file,          \* contents of SAFARI_BOOKMARKS on disk
    chrome_file,          \* contents of CHROME_BOOKMARKS on disk
    safari_orig,          \* contents of SAFARI_BOOKMARKS when the run started
    chrome_orig,          \* contents of CHROME_BOOKMARKS when the run started
    safari_backup,        \* the copy backup_file made of SAFARI_BOOKMARKS
    chrome_backup,        \* the copy backup_file made of CHROME_BOOKMARKS
    written,              \* the files main has opened for writing
    safari_data,          \* main's local safari_data
    chrome_data,          \* main's local chrome_data
    safari_tree,          \* main's local safari_tree (value passed to merge)
    chrome_tree,          \* main's local chrome_tree (value passed to merge)
    merged_tree,          \* main's local merged_tree
    new_safari_children,  \* main's local new_safari_children
    new_chrome_children   \* main's local new_chrome_children

vars == <<pc, failed_at, safari_file, chrome_file, safari_orig, chrome_orig,
          safari_backup, chrome_backup, written, safari_data, chrome_data,
          safari_tree, chrome_tree, merged_tree,
          new_safari_children, new_chrome_children>>

\* the two files as they were when the run started, and what is on disk
disk == <<safari_file, chrome_file, safari_orig, chrome_orig,
          safari_backup, chrome_backup, written>>

---------------------------------------------------------------------------
(* Python dicts *)

\* Python's None; no string of the modelled inputs equals it.
None == "<None>"

\* d.get(k, default)
Get(d, k, default) == IF k \in DOMAIN d THEN d[k] ELSE default

\* d[k] = v  (adds the key when the dict does not hold it)
SetField(d, k, v) == [f \in (DOMAIN d) \cup {k} |-> IF f = k THEN v ELSE d[f]]

\* the truth value Python gives a str-or-None in "if url:"
Truthy(s) == s # None /\ s # ""

\* {} : the empty dict
EmptyDict == [f \in {} |-> None]

---------------------------------------------------------------------------
(* Canonical nodes, as the extract functions build them *)

Bookmark(title, url) == [type |-> "url", title |-> title, url |-> url]

Folder(name, children) == [type |-> "folder", name |-> name, children |-> children]

\* the name extract_safari_bookmarks skips
READING_LIST == "com.apple.ReadingList"

---------------------------------------------------------------------------
(* merge_bookmark_trees *)

\* key = f"folder_{item['name']}" if item['type'] == 'folder' else item['url']
Key(item) == IF item.type = "folder" THEN "folder_" \o item.name ELSE item.url

\* merged_map is a Python dict, which keeps its keys in insertion order:
\* a sequence of [key, item] entries with pairwise different keys.
KeyIndex(merged_map, key) ==
    IF \E i \in 1..Len(merged_map) : merged_map[i].key = key
    THEN CHOOSE i \in 1..Len(merged_map) : merged_map[i].key = key
    ELSE 0

\* merged_map[key] = item done as delete and insert: a slip that moves a key
\* already held to the end
MapSetAtEnd(merged_map, key, item) ==
    SelectSeq(merged_map, LAMBDA e : e.key # key) \o <<[key |-> key, item |-> item]>>

\* merged_map[key] = item : a key already held keeps its position
MapSet(merged_map, key, item) ==
    LET i == KeyIndex(merged_map, key)
    IN  IF i > 0
        THEN [merged_map EXCEPT ![i] = [key |-> key, item |-> item]]
        ELSE Append(merged_map, [key |-> key, item |-> item])

RECURSIVE MapValuesFrom(_, _)
MapValuesFrom(merged_map, i) ==
    IF i > Len(merged_map) THEN <<>>
    ELSE <<merged_map[i].item>> \o MapValuesFrom(merged_map, i + 1)

\* list(merged_map.values())
MapValues(merged_map) == MapValuesFrom(merged_map, 1)

RECURSIVE merge_bookmark_trees(_, _)
RECURSIVE AddFirstTree(_, _)
RECURSIVE MergeSecondTree(_, _)

\* for item in tree1: merged_map[key] = item
AddFirstTree(merged_map, tree1) ==
    IF tree1 = <<>> THEN merged_map
    ELSE AddFirstTree(MapSet(merged_map, Key(Head(tree1)), Head(tree1)), Tail(tree1))

\* the children a matched folder receives: the concatenation, a slip for the
\* recursive merge
ConcatChildren(existing_folder, item) ==
    Get(existing_folder, "children", <<>>) \o Get(item, "children", <<>>)

\* merged_children = merge_bookmark_trees(existing_folder.get('children', []),
\*                                        item.get('children', []))
MergedChildren(existing_folder, item) ==
    merge_bookmark_trees(Get(existing_folder, "children", <<>>),
                         Get(item, "children", <<>>))

\* one iteration of "for item in tree2" without its else branch: a slip that
\* never adds an item of the second tree
MergeItemNoAdd(merged_map, item) ==
    LET key == Key(item)
        i   == KeyIndex(merged_map, key)
    IN  IF i > 0
        THEN IF item.type = "folder"
             THEN LET existing_folder == merged_map[i].item
                  IN  MapSet(merged_map, key,
                             SetField(existing_folder, "children",
                                      MergedChildren(existing_folder, item)))
             ELSE MapSet(merged_map, key,
                         SetField(merged_map[i].item, "title", item.title))
        ELSE merged_map

\* one iteration of "for item in tree2"
MergeItem(merged_map, item) ==
    LET key == Key(item)
        i   == KeyIndex(merged_map, key)
    IN  IF i > 0
        THEN IF item.type = "folder"
             THEN LET existing_folder == merged_map[i].item
                  IN  MapSet(merged_map, key,
                             SetField(existing_folder, "children",
                                      MergedChildren(existing_folder, item)))
             ELSE MapSet(merged_map, key,
                         SetField(merged_map[i].item, "title", item.title))
        ELSE MapSet(merged_map, key, item)

MergeSecondTree(merged_map, tree2) ==
    IF tree2 = <<>> THEN merged_map
    ELSE MergeSecondTree(MergeItem(merged_map, Head(tree2)), Tail(tree2))

merge_bookmark_trees(tree1, tree2) ==
    MapValues(MergeSecondTree(AddFirstTree(<<>>, tree1), tree2))

---------------------------------------------------------------------------
(* Format adapters *)

RECURSIVE extract_safari_bookmarks(_)
RECURSIVE extract_chrome_bookmarks(_)
RECURSIVE create_safari_tree(_)
RECURSIVE create_chrome_tree(_)

\* the items one node of children_list appends (none, or one)
SafariNodeItems(node) ==
    IF Get(node, "WebBookmarkType", None) = "WebBookmarkTypeLeaf"
    THEN LET url   == Get(node, "URLString", None)
             title == Get(Get(node, "URIDictionary", EmptyDict), "title", url)
         IN  IF Truthy(url) THEN <<Bookmark(title, url)>> ELSE <<>>
    ELSE IF Get(node, "WebBookmarkType", None) = "WebBookmarkTypeList"
    THEN LET folder_name == Get(node, "Title", "")
         IN  IF folder_name = READING_LIST
             THEN <<>>
             ELSE <<Folder(folder_name,
                           extract_safari_bookmarks(Get(node, "Children", <<>>)))>>
    ELSE <<>>

extract_safari_bookmarks(children_list) ==
    IF children_list = <<>> THEN <<>>
    ELSE SafariNodeItems(Head(children_list))
            \o extract_safari_bookmarks(Tail(children_list))

ChromeNodeItems(node) ==
    IF Get(node, "type", None) = "url"
    THEN LET url   == Get(node, "url", None)
             title == Get(node, "name", url)
         IN  IF Truthy(url) THEN <<Bookmark(title, url)>> ELSE <<>>
    ELSE IF Get(node, "type", None) = "folder"
    THEN <<Folder(Get(node, "name", ""),
                  extract_chrome_bookmarks(Get(node, "children", <<>>)))>>
    ELSE <<>>

extract_chrome_bookmarks(children_list) ==
    IF children_list = <<>> THEN <<>>
    ELSE ChromeNodeItems(Head(children_list))
            \o extract_chrome_bookmarks(Tail(children_list))

\* a Safari leaf that carries no title: a slip in create_safari_tree
SafariLeafNoTitle(item) ==
    [URIDictionary |-> EmptyDict, URLString |-> item.url,
     WebBookmarkType |-> "WebBookmarkTypeLeaf"]

SafariLeaf(item) ==
    [URIDictionary |-> [title |-> item.title], URLString |-> item.url,
     WebBookmarkType |-> "WebBookmarkTypeLeaf"]

SafariList(item) ==
    [Title |-> item.name, WebBookmarkType |-> "WebBookmarkTypeList",
     Children |-> create_safari_tree(Get(item, "children", <<>>))]

create_safari_tree(tree) ==
    IF tree = <<>> THEN <<>>
    ELSE (IF Head(tree).type = "url" THEN <<SafariLeaf(Head(tree))>>
          ELSE IF Head(tree).type = "folder" THEN <<SafariList(Head(tree))>>
          ELSE <<>>)
         \o create_safari_tree(Tail(tree))

ChromeUrl(item) == [type |-> "url", name |-> item.title, url |-> item.url]

ChromeFolder(item) ==
    [type |-> "folder", name |-> item.name,
     children |-> create_chrome_tree(Get(item, "children", <<>>))]

create_chrome_tree(tree) ==
    IF tree = <<>> THEN <<>>
    ELSE (IF Head(tree).type = "url" THEN <<ChromeUrl(Head(tree))>>
          ELSE IF Head(tree).type = "folder" THEN <<ChromeFolder(Head(tree))>>
          ELSE <<>>)
         \o create_chrome_tree(Tail(tree))

---------------------------------------------------------------------------
(* Bounded inputs *)

\* largest number of nodes (at all depths) of the trees handed to one call
MaxNodes == 4

\* urls, titles and folder names of the trees handed to merge_bookmark_trees
MergeAlphabet ==
    [urls |-> {"a", "folder_W"}, titles |-> {"Old", "New"}, names |-> {"W", "V"}]

\* for each n up to MaxNodes, the canonical trees of exactly n nodes over the
\* alphabet A
Forests(A) ==
    LET F[n \in 0..MaxNodes] ==
            IF n = 0 THEN {<<>>}
            ELSE {<<Bookmark(t, u)>> \o r : t \in A.titles, u \in A.urls, r \in F[n - 1]}
                 \cup UNION { {<<Folder(nm, c)>> \o r :
                                  nm \in A.names, c \in F[j], r \in F[n - 1 - j]}
                              : j \in 0..(n - 1) }
    IN  F

MergeForests == Forests(MergeAlphabet)

\* the sizes of the pairs of trees handed to merge_bookmark_trees: at most
\* MaxNodes nodes in the two trees together
MergeSizes == {nn \in (0..MaxNodes) \X (0..MaxNodes) : nn[1] + nn[2] <= MaxNodes}

\* urls, titles and folder names of the trees handed to the create functions
RoundAlphabet ==
    [urls |-> {"", "a"}, titles |-> {"", "t"}, names |-> {"", READING_LIST}]

RoundForests == Forests(RoundAlphabet)

---------------------------------------------------------------------------
(* Files and main's locals *)

Absent == [kind |-> "absent"]
Garbage == [kind |-> "garbage"]
Doc(d) == [kind |-> "doc", doc |-> d]
Unbound == [kind |-> "unbound"]

---------------------------------------------------------------------------
(* The two bookmark files a run of main may find *)

\* largest number of native nodes (at all depths) in the two files together
MaxNative == 2

SafariLeafNodes ==
    { [WebBookmarkType |-> "WebBookmarkTypeLeaf", URLString |-> "a",
       URIDictionary |-> [title |-> "Old"]],
      [WebBookmarkType |-> "WebBookmarkTypeLeaf", URLString |-> "b"],
      [WebBookmarkType |-> "WebBookmarkTypeLeaf", URIDictionary |-> [title |-> "Old"]],
      [WebBookmarkType |-> "WebBookmarkTypeProxy", Title |-> "History"] }

ChromeLeafNodes ==
    { [type |-> "url", name |-> "New", url |-> "a"],
      [type |-> "url", url |-> "c"],
      [type |-> "url", name |-> "New"] }

NativeFolderNames == {"W", READING_LIST}

\* for each n up to MaxNative, the Safari child lists of exactly n nodes
SafariLists ==
    LET L[n \in 0..MaxNative] ==
            IF n = 0 THEN {<<>>}
            ELSE {<<l>> \o r : l \in SafariLeafNodes, r \in L[n - 1]}
                 \cup UNION { {<<[WebBookmarkType |-> "WebBookmarkTypeList", Title |-> nm,
                                  Children |-> c]>> \o r :
                                  nm \in NativeFolderNames, c \in L[j], r \in L[n - 1 - j]}
                              : j \in 0..(n - 1) }
    IN  L

\* for each n up to MaxNative, the Chrome child lists of exactly n nodes
ChromeLists ==
    LET L[n \in 0..MaxNative] ==
            IF n = 0 THEN {<<>>}
            ELSE {<<l>> \o r : l \in ChromeLeafNodes, r \in L[n - 1]}
                 \cup UNION { {<<[type |-> "folder", name |-> nm, children |-> c]>> \o r :
                                  nm \in NativeFolderNames, c \in L[j], r \in L[n - 1 - j]}
                              : j \in 0..(n - 1) }
    IN  L

\* what SAFARI_BOOKMARKS may be: missing, not a property list, a property list
\* without the Children key, or one with it
SafariShapes == {"absent", "garbage", "no_children", "full"}

SafariFile(shape, children) ==
    CASE shape = "absent"      -> Absent
      [] shape = "garbage"     -> Garbage
      [] shape = "no_children" -> Doc([WebBookmarkFileVersion |-> "1"])
      [] shape = "full"        -> Doc([WebBookmarkFileVersion |-> "1",
                                       Children |-> children])

ChromeRoot(name, children) == [name |-> name, type |-> "folder", children |-> children]

\* what CHROME_BOOKMARKS may be: missing, not JSON, JSON that lacks one of the
\* keys main subscripts, a bookmark_bar without children, or a complete
\* document, with or without bookmarks in the synced root
ChromeShapes ==
    {"absent", "garbage", "no_roots", "no_bar", "no_other", "no_synced",
     "bar_no_children", "full", "full_mobile"}

ChromeRoots(shape, bar, other) ==
    LET b == ChromeRoot("Bookmarks bar", bar)
        o == ChromeRoot("Other bookmarks", other)
        y == ChromeRoot("Mobile bookmarks", <<>>)
        m == ChromeRoot("Mobile bookmarks", <<[type |-> "url", name |-> "M", url |-> "m"]>>)
    IN  CASE shape = "no_bar"          -> [other |-> o, synced |-> y]
          [] shape = "no_other"        -> [bookmark_bar |-> b, synced |-> y]
          [] shape = "no_synced"       -> [bookmark_bar |-> b, other |-> o]
          [] shape = "bar_no_children" ->
                 [bookmark_bar |-> [name |-> "Bookmarks bar", type |-> "folder"],
                  other |-> o, synced |-> y]
          [] shape = "full_mobile"     -> [bookmark_bar |-> b, other |-> o, synced |-> m]
          [] OTHER                     -> [bookmark_bar |-> b, other |-> o, synced |-> y]

ChromeFile(shape, bar, other) ==
    CASE shape = "absent"   -> Absent
      [] shape = "garbage"  -> Garbage
      [] shape = "no_roots" -> Doc([version |-> "1"])
      [] OTHER              -> Doc([version |-> "1", roots |-> ChromeRoots(shape, bar, other)])

\* the shapes that have no place for the child lists come with empty lists
RunInputs ==
    { in \in [ns : 0..MaxNative, nb : 0..MaxNative, no : 0..MaxNative,
              ss : SafariShapes, cs : ChromeShapes] :
        /\ in.ns + in.nb + in.no <= MaxNative
        /\ in.ss # "full" => in.ns = 0
        /\ in.cs \in {"absent", "garbage", "no_roots"} => (in.nb = 0 /\ in.no = 0)
        /\ in.cs \in {"no_bar", "bar_no_children"} => in.nb = 0
        /\ in.cs = "no_other" => in.no = 0 }

Init ==
    /\ pc = "prompt"
    /\ failed_at = "none"
    /\ \E in \in RunInputs :
          /\ \E c \in SafariLists[in.ns] : safari_file = SafariFile(in.ss, c)
          /\ \E b \in ChromeLists[in.nb], o \in ChromeLists[in.no] :
                chrome_file = ChromeFile(in.cs, b, o)
    /\ safari_orig = safari_file
    /\ chrome_orig = chrome_file
    /\ safari_backup = Absent /\ chrome_backup = Absent
    /\ written = {}
    /\ safari_data = Unbound /\ chrome_data = Unbound
    /\ safari_tree = <<>> /\ chrome_tree = <<>>
    /\ merged_tree = <<>>
    /\ new_safari_children = <<>>
    /\ new_chrome_children = <<>>

locals == <<safari_data, chrome_data, safari_tree, chrome_tree, merged_tree,
            new_safari_children, new_chrome_children>>

---------------------------------------------------------------------------
(* main *)

\* an exception leaves main at the statement pc: the run ends there
Raise ==
    /\ failed_at' = pc
    /\ pc' = "failed"

\* lines 152-153: the operator confirms
Prompt ==
    /\ pc = "prompt"
    /\ pc' = "backup_safari"
    /\ UNCHANGED <<failed_at, disk, locals>>

\* line 153: input() raises (end of input, interrupt)
PromptFail ==
    /\ pc = "prompt"
    /\ Raise
    /\ UNCHANGED <<disk, locals>>

\* shutil.copy2(path, backup_path): the copy holds what the file holds
backup_file(file) == file

\* line 156: backup_file(SAFARI_BOOKMARKS)
BackupSafari ==
    /\ pc = "backup_safari"
    /\ safari_file # Absent
    /\ safari_backup' = backup_file(safari_file)
    /\ pc' = "backup_chrome"
    /\ UNCHANGED <<failed_at, safari_file, chrome_file, safari_orig, chrome_orig,
                   chrome_backup, written, locals>>

\* line 156: makedirs or copy2 raises (always so when the file is missing)
BackupSafariFail ==
    /\ pc = "backup_safari"
    /\ Raise
    /\ UNCHANGED <<disk, locals>>

\* line 157 without its copy: a slip that goes on with no backup of the file
BackupChromeSkipped ==
    /\ pc = "backup_chrome"
    /\ chrome_file # Absent
    /\ pc' = "read_safari"
    /\ UNCHANGED <<failed_at, disk, locals>>

\* line 157: backup_file(CHROME_BOOKMARKS)
BackupChrome ==
    /\ pc = "backup_chrome"
    /\ chrome_file # Absent
    /\ chrome_backup' = backup_file(chrome_file)
    /\ pc' = "read_safari"
    /\ UNCHANGED <<failed_at, safari_file, chrome_file, safari_orig, chrome_orig,
                   safari_backup, written, locals>>

\* line 157: makedirs or copy2 raises (always so when the file is missing)
BackupChromeFail ==
    /\ pc = "backup_chrome"
    /\ Raise
    /\ UNCHANGED <<disk, locals>>

\* lines 160-163: the property list is loaded and its Children extracted
ReadSafari ==
    /\ pc = "read_safari"
    /\ safari_file.kind = "doc"
    /\ safari_data' = safari_file.doc
    /\ safari_tree' = extract_safari_bookmarks(Get(safari_file.doc, "Children", <<>>))
    /\ pc' = "read_chrome"
    /\ UNCHANGED <<failed_at, disk, chrome_data, chrome_tree, merged_tree,
                   new_safari_children, new_chrome_children>>

\* lines 161-162: open or plistlib.load raises (always so for a file that is
\* no property list)
ReadSafariFail ==
    /\ pc = "read_safari"
    /\ Raise
    /\ UNCHANGED <<disk, locals>>

\* the keys lines 169-170 subscript are there
HasReadKeys(data) ==
    /\ "roots" \in DOMAIN data
    /\ {"bookmark_bar", "other"} \subseteq DOMAIN data.roots

\* lines 166-171: the JSON is loaded, the children of the two roots are
\* concatenated and extracted
ReadChrome ==
    /\ pc = "read_chrome"
    /\ chrome_file.kind = "doc"
    /\ HasReadKeys(chrome_file.doc)
    /\ chrome_data' = chrome_file.doc
    /\ LET chrome_bar_children ==
               Get(chrome_file.doc.roots.bookmark_bar, "children", <<>>)
           chrome_other_children ==
               Get(chrome_file.doc.roots.other, "children", <<>>)
       IN  chrome_tree' =
               extract_chrome_bookmarks(chrome_bar_children \o chrome_other_children)
    /\ pc' = "merge"
    /\ UNCHANGED <<failed_at, disk, safari_data, safari_tree, merged_tree,
                   new_safari_children, new_chrome_children>>

\* lines 167-168: open or json.load raises (always so for a file that is no
\* JSON)
ReadChromeFail ==
    /\ pc = "read_chrome"
    /\ Raise
    /\ UNCHANGED <<disk, locals>>

\* lines 169-170: KeyError on 'roots', 'bookmark_bar' or 'other'
ReadChromeKeyError ==
    /\ pc = "read_chrome"
    /\ chrome_file.kind = "doc"
    /\ ~HasReadKeys(chrome_file.doc)
    /\ chrome_data' = chrome_file.doc
    /\ Raise
    /\ UNCHANGED <<disk, safari_data, safari_tree, chrome_tree, merged_tree,
                   new_safari_children, new_chrome_children>>

\* line 175: merged_tree = merge_bookmark_trees(safari_tree, chrome_tree)
Merge ==
    /\ pc = "merge"
    /\ merged_tree' = merge_bookmark_trees(safari_tree, chrome_tree)
    /\ pc' = "create"
    /\ UNCHANGED <<failed_at, disk, safari_data, chrome_data,
                   safari_tree, chrome_tree, new_safari_children, new_chrome_children>>

\* lines 178-179: the two native trees are built from merged_tree
Create ==
    /\ pc = "create"
    /\ new_safari_children' = create_safari_tree(merged_tree)
    /\ new_chrome_children' = create_chrome_tree(merged_tree)
    /\ pc' = "update"
    /\ UNCHANGED <<failed_at, disk, safari_data, chrome_data,
                   safari_tree, chrome_tree, merged_tree>>

\* line 185 left out: a slip that keeps the children of roots.other
RootsAfter184(data) ==
    LET r == data.roots
    IN  SetField(r, "bookmark_bar",
                 SetField(r.bookmark_bar, "children", new_chrome_children))

\* chrome_data after lines 184-185
RootsAfter185(data) ==
    LET r  == data.roots
        r1 == SetField(r, "bookmark_bar",
                       SetField(r.bookmark_bar, "children", new_chrome_children))
    IN  SetField(r1, "other", SetField(r.other, "children", <<>>))

\* lines 183-186: the documents in memory receive the new trees
Update ==
    /\ pc = "update"
    /\ "synced" \in DOMAIN chrome_data.roots
    /\ safari_data' = SetField(safari_data, "Children", new_safari_children)
    /\ LET r2 == RootsAfter185(chrome_data)
       IN  chrome_data' =
               SetField(chrome_data, "roots",
                        SetField(r2, "synced", SetField(r2.synced, "children", <<>>)))
    /\ pc' = "write_safari"
    /\ UNCHANGED <<failed_at, disk, safari_tree, chrome_tree, merged_tree,
                   new_safari_children, new_chrome_children>>

\* line 186: KeyError on 'synced', after lines 183-185 changed the documents
\* in memory
UpdateKeyError ==
    /\ pc = "update"
    /\ "synced" \notin DOMAIN chrome_data.roots
    /\ safari_data' = SetField(safari_data, "Children", new_safari_children)
    /\ chrome_data' = SetField(chrome_data, "roots", RootsAfter185(chrome_data))
    /\ Raise
    /\ UNCHANGED <<disk, safari_tree, chrome_tree, merged_tree,
                   new_safari_children, new_chrome_children>>

\* lines 189-190: SAFARI_BOOKMARKS is opened for writing and receives safari_data
WriteSafari ==
    /\ pc = "write_safari"
    /\ safari_file' = Doc(safari_data)
    /\ written' = written \cup {"safari"}
    /\ pc' = "write_chrome"
    /\ UNCHANGED <<failed_at, chrome_file, safari_orig, chrome_orig,
                   safari_backup, chrome_backup, locals>>

\* line 189: open raises, the file is as it was
WriteSafariOpenFail ==
    /\ pc = "write_safari"
    /\ Raise
    /\ UNCHANGED <<disk, locals>>

\* line 190: plistlib.dump raises after open truncated the file
WriteSafariDumpFail ==
    /\ pc = "write_safari"
    /\ safari_file' = Garbage
    /\ written' = written \cup {"safari"}
    /\ Raise
    /\ UNCHANGED <<chrome_file, safari_orig, chrome_orig,
                   safari_backup, chrome_backup, locals>>

\* lines 191-194: CHROME_BOOKMARKS is opened for writing and receives chrome_data
WriteChrome ==
    /\ pc = "write_chrome"
    /\ chrome_file' = Doc(chrome_data)
    /\ written' = written \cup {"chrome"}
    /\ pc' = "done"
    /\ UNCHANGED <<failed_at, safari_file, safari_orig, chrome_orig,
                   safari_backup, chrome_backup, locals>>

\* line 191: open raises, the file is as it was
WriteChromeOpenFail ==
    /\ pc = "write_chrome"
    /\ Raise
    /\ UNCHANGED <<disk, locals>>

\* line 192: json.dump raises after open truncated the file
WriteChromeDumpFail ==
    /\ pc = "write_chrome"
    /\ chrome_file' = Garbage
    /\ written' = written \cup {"chrome"}
    /\ Raise
    /\ UNCHANGED <<safari_file, safari_orig, chrome_orig,
                   safari_backup, chrome_backup, locals>>

Next ==
    \/ Prompt \/ PromptFail
    \/ BackupSafari \/ BackupSafariFail
    \/ BackupChrome \/ BackupChromeFail
    \/ ReadSafari \/ ReadSafariFail
    \/ ReadChrome \/ ReadChromeFail \/ ReadChromeKeyError
    \/ Merge
    \/ Create
    \/ Update \/ UpdateKeyError
    \/ WriteSafari \/ WriteSafariOpenFail \/ WriteSafariDumpFail
    \/ WriteChrome \/ WriteChromeOpenFail \/ WriteChromeDumpFail

Spec == Init /\ [][Next]_vars

---------------------------------------------------------------------------
(* merge_bookmark_trees applied to bounded pairs of canonical trees: every    *)
(* pair of at most MaxNodes nodes together, and every tree of at most        *)
(* MaxNodes nodes paired with itself                                         *)

InitMerge ==
    /\ pc = "merge"
    /\ failed_at = "none"
    /\ safari_file = Absent /\ chrome_file = Absent
    /\ safari_orig = Absent /\ chrome_orig = Absent
    /\ safari_backup = Absent /\ chrome_backup = Absent
    /\ written = {}
    /\ safari_data = Unbound /\ chrome_data = Unbound
    /\ \/ \E nn \in MergeSizes :
             /\ safari_tree \in MergeForests[nn[1]]
             /\ chrome_tree \in MergeForests[nn[2]]
       \/ /\ \E n \in 0..MaxNodes : safari_tree \in MergeForests[n]
          /\ chrome_tree = safari_tree
    /\ merged_tree = <<>>
    /\ new_safari_children = <<>>
    /\ new_chrome_children = <<>>

SpecMerge == InitMerge /\ [][Merge]_vars

---------------------------------------------------------------------------
(* Vocabulary of the properties of merge_bookmark_trees *)

RECURSIVE Keys(_)
\* the identity keys of the entries of a tree, in order
Keys(tree) == IF tree = <<>> THEN <<>> ELSE <<Key(Head(tree))>> \o Keys(Tail(tree))

KeySet(tree) == {Key(tree[i]) : i \in 1..Len(tree)}

RECURSIVE FirstOccurrences(_, _)
\* ks without the elements of seen and without repetitions
FirstOccurrences(ks, seen) ==
    IF ks = <<>> THEN <<>>
    ELSE IF Head(ks) \in seen THEN FirstOccurrences(Tail(ks), seen)
    ELSE <<Head(ks)>> \o FirstOccurrences(Tail(ks), seen \cup {Head(ks)})

\* position of k in ks (0 when absent)
IndexOf(ks, k) ==
    IF \E i \in 1..Len(ks) : ks[i] = k
    THEN CHOOSE i \in 1..Len(ks) : ks[i] = k /\ \A j \in 1..(i - 1) : ks[j] # k
    ELSE 0

\* no two entries of the tree have the same identity key
UniqueKeys(tree) ==
    \A i, j \in 1..Len(tree) : i # j => Key(tree[i]) # Key(tree[j])

RECURSIVE UniqueKeysDeep(_)
\* the same, at every level of the tree
UniqueKeysDeep(tree) ==
    /\ UniqueKeys(tree)
    /\ \A i \in 1..Len(tree) :
          tree[i].type = "folder" => UniqueKeysDeep(tree[i].children)

IsFolder(item) == item.type = "folder"
IsBookmark(item) == item.type = "url"

\* the call merge_bookmark_trees(safari_tree, chrome_tree) has returned
Merged == pc = "create"

---------------------------------------------------------------------------
(* C1 *)

\* C1 as stated: the merge of any tree with itself is that tree, also when
\* siblings share a URL or a folder name.
\* (When both arguments are the same Python list, line 104 writes a title into
\* a dict the loop still has to read, so a repeated URL can end with another
\* title than two equal, separate lists give; the keys of the result, and so
\* whether the result equals the tree, are the same.)
C1_SelfMergeIdentity ==
    (Merged /\ safari_tree = chrome_tree) => merged_tree = safari_tree

\* C1 (amended): the merge of a tree with itself is that tree whenever no two
\* siblings, at any level of the tree, have the same identity key (the key
\* the code computes: "folder_" + name for a Folder, the url for a Bookmark).
C1_SelfMergeUniqueKeys ==
    (Merged /\ safari_tree = chrome_tree /\ UniqueKeysDeep(safari_tree))
        => merged_tree = safari_tree

\* a self-merge of a tree with two top-level entries, one of them a folder
\* with a child, all keys distinct
C1_Witness ==
    /\ Merged /\ safari_tree = chrome_tree /\ UniqueKeysDeep(safari_tree)
    /\ Len(safari_tree) >= 2
    /\ \E i \in 1..Len(safari_tree) :
          IsFolder(safari_tree[i]) /\ safari_tree[i].children # <<>>
    /\ merged_tree = safari_tree

---------------------------------------------------------------------------
(* C7 *)

\* C7 as stated: merging with an empty tree returns the other tree, also when
\* that tree has siblings sharing a URL or a folder name.
C7_EmptyTreeIdentity ==
    /\ (Merged /\ safari_tree = <<>>) => merged_tree = chrome_tree
    /\ (Merged /\ chrome_tree = <<>>) => merged_tree = safari_tree

\* C7 (amended): merge([], S) = S and merge(P, []) = P whenever the top-level
\* entries of S (of P) have pairwise different identity keys; the nested
\* levels are copied as they are, repeated keys included.
C7_EmptyTreeUniqueKeys ==
    /\ (Merged /\ safari_tree = <<>> /\ UniqueKeys(chrome_tree))
          => merged_tree = chrome_tree
    /\ (Merged /\ chrome_tree = <<>> /\ UniqueKeys(safari_tree))
          => merged_tree = safari_tree

\* an empty primary merged with a secondary whose top-level keys differ and
\* one of whose folders holds two children with one key
C7_Witness ==
    /\ Merged /\ safari_tree = <<>> /\ UniqueKeys(chrome_tree)
    /\ Len(chrome_tree) >= 2
    /\ \E i \in 1..Len(chrome_tree) :
          IsFolder(chrome_tree[i]) /\ ~UniqueKeys(chrome_tree[i].children)
    /\ merged_tree = chrome_tree

---------------------------------------------------------------------------
(* C5 *)

\* C5 as stated: every top-level entry of primary, in order, then the entries
\* of secondary whose key primary lacks, in order; a Bookmark of secondary
\* whose URL no Bookmark of primary has appears once, after all of them.
C5_OrderAllEntries ==
    Merged =>
        /\ Keys(merged_tree) =
              Keys(safari_tree)
              \o Keys(SelectSeq(chrome_tree, LAMBDA it : Key(it) \notin KeySet(safari_tree)))
        /\ \A j \in 1..Len(chrome_tree) :
              (/\ IsBookmark(chrome_tree[j])
               /\ \A i \in 1..Len(safari_tree) :
                     IsBookmark(safari_tree[i]) => safari_tree[i].url # chrome_tree[j].url)
              => /\ Cardinality({k \in 1..Len(merged_tree) :
                        IsBookmark(merged_tree[k])
                        /\ merged_tree[k].url = chrome_tree[j].url}) = 1
                 /\ \A k \in 1..Len(merged_tree) :
                        (IsBookmark(merged_tree[k])
                         /\ merged_tree[k].url = chrome_tree[j].url) => k > Len(safari_tree)

\* C5 (amended): the result holds one entry per identity key; its keys are the
\* keys of primary in the order of their first occurrence, followed by the
\* keys of secondary that primary lacks, in the order of their first
\* occurrence.
C5_OrderFirstOccurrences ==
    Merged =>
        Keys(merged_tree) =
            FirstOccurrences(Keys(safari_tree), {})
            \o FirstOccurrences(Keys(chrome_tree), KeySet(safari_tree))

\* a merge where primary repeats a key and secondary brings a key primary has
\* and a key primary lacks
C5_Witness ==
    /\ Merged
    /\ ~UniqueKeys(safari_tree)
    /\ \E j \in 1..Len(chrome_tree) : Key(chrome_tree[j]) \in KeySet(safari_tree)
    /\ \E j \in 1..Len(chrome_tree) : Key(chrome_tree[j]) \notin KeySet(safari_tree)
    /\ Len(merged_tree) = 2

---------------------------------------------------------------------------
(* C4 *)

\* the top-level folders of a tree that carry the name nm, in order
FoldersNamed(tree, nm) == SelectSeq(tree, LAMBDA it : IsFolder(it) /\ it.name = nm)

RECURSIVE MergeAllChildren(_, _)
\* the merge, from left to right, of the children of the folders fs into acc
\* (acc starts as the children of the first folder of the name, which a lone
\* folder keeps as they are)
MergeAllChildren(acc, fs) ==
    IF fs = <<>> THEN acc
    ELSE MergeAllChildren(merge_bookmark_trees(acc, Head(fs).children), Tail(fs))

RECURSIVE NoBookmarkOnFolderKey(_)
\* no Bookmark of the tree, at any level, has a URL that is the key of a folder
\* name
NoBookmarkOnFolderKey(tree) ==
    \A i \in 1..Len(tree) :
        IF IsBookmark(tree[i])
        THEN \A nm \in MergeAlphabet.names : tree[i].url # "folder_" \o nm
        ELSE NoBookmarkOnFolderKey(tree[i].children)

\* C4: all the folders of one name at the merged level, whether they come from
\* primary, from secondary or are same-name siblings of one tree, end up as one
\* Folder at the position of the first of them, whose children are the merge of
\* the children of all of them, none of their children lost.  (Stated for the
\* trees where no Bookmark sits on a folder's key, the case of C10.)
C4_FolderMerge ==
    (Merged /\ NoBookmarkOnFolderKey(safari_tree \o chrome_tree)) =>
        \A nm \in MergeAlphabet.names :
            LET all == FoldersNamed(safari_tree \o chrome_tree, nm)
                res == FoldersNamed(merged_tree, nm)
            IN  all # <<>> =>
                  /\ Len(res) = 1
                  /\ IndexOf(Keys(merged_tree), "folder_" \o nm)
                       = IndexOf(FirstOccurrences(Keys(safari_tree \o chrome_tree), {}),
                                 "folder_" \o nm)
                  /\ res[1].children = MergeAllChildren(Head(all).children, Tail(all))
                  /\ \A f \in 1..Len(all) :
                        KeySet(all[f].children) \subseteq KeySet(res[1].children)

---------------------------------------------------------------------------
(* C6 *)

\* the title of the last top-level Bookmark of the tree with the url u
LastTitle(tree, u) ==
    LET hits == SelectSeq(tree, LAMBDA it : IsBookmark(it) /\ it.url = u)
    IN  hits[Len(hits)].title

BookmarkUrls(tree) == {tree[i].url : i \in {j \in 1..Len(tree) : IsBookmark(tree[j])}}

\* C6: for a URL that a Bookmark of primary and a Bookmark of secondary share,
\* the result holds one Bookmark, at the position the key has in primary, with
\* that url and the title of the last such Bookmark of secondary, and with no
\* other field.
C6_TitlePrecedence ==
    Merged =>
        \A u \in BookmarkUrls(safari_tree) \cap BookmarkUrls(chrome_tree) :
            LET hits == {k \in 1..Len(merged_tree) :
                            IsBookmark(merged_tree[k]) /\ merged_tree[k].url = u}
            IN  /\ Cardinality(hits) = 1
                /\ \A k \in hits :
                      /\ merged_tree[k] = Bookmark(LastTitle(chrome_tree, u), u)
                      /\ k = IndexOf(FirstOccurrences(Keys(safari_tree), {}), u)

---------------------------------------------------------------------------
(* C10 *)

\* C10: the key of a Folder never equals the key of a Bookmark, so a Folder and
\* a Bookmark of the merged level are both kept, the Folder as a Folder of its
\* name and the Bookmark as a Bookmark of its url.
C10_DisjointKeys ==
    Merged =>
        LET both == safari_tree \o chrome_tree
        IN  \A i, j \in 1..Len(both) :
                (IsFolder(both[i]) /\ IsBookmark(both[j])) =>
                    /\ Key(both[i]) # Key(both[j])
                    /\ \E k \in 1..Len(merged_tree) :
                          IsFolder(merged_tree[k]) /\ merged_tree[k].name = both[i].name
                    /\ \E k \in 1..Len(merged_tree) :
                          IsBookmark(merged_tree[k]) /\ merged_tree[k].url = both[j].url

---------------------------------------------------------------------------
(* create followed by extract, applied to bounded canonical trees *)

\* each extract function applied to what the matching create function built
ExtractBuilt ==
    /\ pc = "update"
    /\ safari_tree' = extract_safari_bookmarks(new_safari_children)
    /\ chrome_tree' = extract_chrome_bookmarks(new_chrome_children)
    /\ pc' = "extracted"
    /\ UNCHANGED <<failed_at, disk, safari_data, chrome_data,
                   merged_tree, new_safari_children, new_chrome_children>>

InitRound ==
    /\ pc = "create"
    /\ failed_at = "none"
    /\ safari_file = Absent /\ chrome_file = Absent
    /\ safari_orig = Absent /\ chrome_orig = Absent
    /\ safari_backup = Absent /\ chrome_backup = Absent
    /\ written = {}
    /\ safari_data = Unbound /\ chrome_data = Unbound
    /\ safari_tree = <<>> /\ chrome_tree = <<>>
    /\ \E n \in 0..MaxNodes : merged_tree \in RoundForests[n]
    /\ new_safari_children = <<>>
    /\ new_chrome_children = <<>>

NextRound == Create \/ ExtractBuilt

SpecRound == InitRound /\ [][NextRound]_vars

RECURSIVE HasReadingList(_)
\* some folder of the canonical tree, at any depth, has the reserved name
HasReadingList(tree) ==
    \E i \in 1..Len(tree) :
        /\ IsFolder(tree[i])
        /\ (tree[i].name = READING_LIST \/ HasReadingList(Get(tree[i], "children", <<>>)))

RECURSIVE HasEmptyUrl(_)
\* some Bookmark of the canonical tree, at any depth, has the empty url
HasEmptyUrl(tree) ==
    \E i \in 1..Len(tree) :
        IF IsBookmark(tree[i]) THEN tree[i].url = ""
        ELSE HasEmptyUrl(Get(tree[i], "children", <<>>))

RoundTripped == pc = "extracted"

\* C2 as stated: for every canonical tree without a folder of the reserved
\* name, whatever strings its nodes carry, extract(create(T)) = T in each of
\* the two formats.
C2_RoundTrip ==
    (RoundTripped /\ ~HasReadingList(merged_tree))
        => (safari_tree = merged_tree /\ chrome_tree = merged_tree)

\* C2 (amended): extract(create(T)) = T in each of the two formats for every
\* canonical tree T that has no folder of the reserved name and no Bookmark
\* whose url is the empty string.
C2_RoundTripNonEmptyUrl ==
    (RoundTripped /\ ~HasReadingList(merged_tree) /\ ~HasEmptyUrl(merged_tree))
        => (safari_tree = merged_tree /\ chrome_tree = merged_tree)

\* a round trip of a tree with a folder of the empty name that holds a Bookmark
\* of the empty title
C2_Witness ==
    /\ RoundTripped /\ ~HasReadingList(merged_tree) /\ ~HasEmptyUrl(merged_tree)
    /\ \E i \in 1..Len(merged_tree) :
          /\ IsFolder(merged_tree[i]) /\ merged_tree[i].name = ""
          /\ \E j \in 1..Len(merged_tree[i].children) :
                /\ IsBookmark(merged_tree[i].children[j])
                /\ merged_tree[i].children[j].title = ""
    /\ safari_tree = merged_tree /\ chrome_tree = merged_tree

---------------------------------------------------------------------------
(* Vocabulary of the properties of a run of main *)

RECURSIVE SafariHasReadingList(_)
\* some folder of the Safari child list, at any depth, has the reserved name
SafariHasReadingList(children_list) ==
    \E i \in 1..Len(children_list) :
        /\ Get(children_list[i], "WebBookmarkType", None) = "WebBookmarkTypeList"
        /\ \/ Get(children_list[i], "Title", "") = READING_LIST
           \/ SafariHasReadingList(Get(children_list[i], "Children", <<>>))

RECURSIVE ChromeHasReadingList(_)
\* some folder of the Chrome child list, at any depth, has the reserved name
ChromeHasReadingList(children_list) ==
    \E i \in 1..Len(children_list) :
        /\ Get(children_list[i], "type", None) = "folder"
        /\ \/ Get(children_list[i], "name", "") = READING_LIST
           \/ ChromeHasReadingList(Get(children_list[i], "children", <<>>))

\* the root Children of the Safari file of the start of the run
OrigSafariChildren ==
    IF safari_orig.kind = "doc" THEN Get(safari_orig.doc, "Children", <<>>) ELSE <<>>

\* the children of one root of the Chrome file of the start of the run
OrigChromeChildren(root) ==
    IF chrome_orig.kind = "doc"
    THEN Get(Get(Get(chrome_orig.doc, "roots", EmptyDict), root, EmptyDict),
             "children", <<>>)
    ELSE <<>>

---------------------------------------------------------------------------
(* C3 *)

\* C3: when the Safari or the Chrome input holds, at any depth, a folder of the
\* reserved reading-list name, no folder of that name is in either extracted
\* tree, in the merged tree or in the rebuilt Safari or Chrome children.
C3_NoReadingList ==
    (\/ SafariHasReadingList(OrigSafariChildren)
     \/ ChromeHasReadingList(OrigChromeChildren("bookmark_bar"))
     \/ ChromeHasReadingList(OrigChromeChildren("other")))
    => /\ ~HasReadingList(safari_tree)
       /\ ~HasReadingList(chrome_tree)
       /\ ~HasReadingList(merged_tree)
       /\ ~SafariHasReadingList(new_safari_children)
       /\ ~ChromeHasReadingList(new_chrome_children)

---------------------------------------------------------------------------
(* C8 *)

\* both backups hold what the two files held when the run started
BothBackedUp ==
    /\ safari_backup = safari_orig
    /\ chrome_backup = chrome_orig

\* both files were loaded into safari_data and chrome_data
BothParsed ==
    /\ safari_orig.kind = "doc" /\ safari_data # Unbound
    /\ chrome_orig.kind = "doc" /\ chrome_data # Unbound

\* the Chrome document of the start of the run holds the four keys main
\* subscripts
ChromeKeysHeld ==
    /\ "roots" \in DOMAIN chrome_orig.doc
    /\ {"bookmark_bar", "other", "synced"} \subseteq DOMAIN chrome_orig.doc.roots

\* the run ended in an exception of the prompt, a backup, a read, a parse or a
\* key lookup
FailedBeforeWrite ==
    /\ pc = "failed"
    /\ failed_at \in {"prompt", "backup_safari", "backup_chrome", "read_safari",
                      "read_chrome", "update"}

NothingWritten ==
    /\ written = {}
    /\ safari_file = safari_orig
    /\ chrome_file = chrome_orig

\* C8 as stated: a file is opened for writing only after both backups were
\* made and both documents were parsed and found to hold every root key main
\* uses, Safari's Children among them; a run that fails in a backup, a read, a
\* parse or a key lookup writes neither file.
C8_NoWriteBeforeAllKeys ==
    /\ written # {} =>
          /\ BothBackedUp /\ BothParsed /\ ChromeKeysHeld
          /\ "Children" \in DOMAIN safari_orig.doc
    /\ FailedBeforeWrite => NothingWritten

\* C8 (amended): a file is opened for writing only after both backups were
\* made, both documents were parsed and the Chrome document was found to hold
\* the keys main subscripts (roots, and bookmark_bar, other and synced in it);
\* Safari's Children and each Chrome root's children are read with an empty
\* default, their absence does not stop the run.  A run that fails in a
\* backup, a read, a parse or a key lookup writes neither file.
C8_NoWriteBeforeBackupAndParse ==
    /\ written # {} => (BothBackedUp /\ BothParsed /\ ChromeKeysHeld)
    /\ FailedBeforeWrite => NothingWritten

\* the Safari file has just been written, the first write of the run
C8_Witness ==
    /\ pc = "write_chrome"
    /\ written = {"safari"}
    /\ safari_file # safari_orig
    /\ BothBackedUp

---------------------------------------------------------------------------
(* C9 *)

\* the entries of a Safari child list that are no container of the name nm
SafariWithout(children_list, nm) ==
    SelectSeq(children_list,
              LAMBDA n : ~(Get(n, "WebBookmarkType", None) = "WebBookmarkTypeList"
                           /\ Get(n, "Title", "") = nm))

\* the entries of a Chrome child list that are no container of the name nm
ChromeWithout(children_list, nm) ==
    SelectSeq(children_list,
              LAMBDA n : ~(Get(n, "type", None) = "folder" /\ Get(n, "name", "") = nm))

\* C9 as stated: after a successful run each document holds the merged tree as
\* the children of one container named "Synced", appended to the Safari root
\* children and to the children of one Chrome root after any earlier container
\* of that name was removed; every other entry is as it was.
C9_SyncedContainer ==
    pc = "done" =>
        /\ safari_file.doc.Children =
              SafariWithout(OrigSafariChildren, "Synced")
              \o <<[WebBookmarkType |-> "WebBookmarkTypeList", Title |-> "Synced",
                    Children |-> create_safari_tree(merged_tree)]>>
        /\ \E anchor \in {"bookmark_bar", "other", "synced"} :
              /\ chrome_file.doc.roots[anchor].children =
                    ChromeWithout(OrigChromeChildren(anchor), "Synced")
                    \o <<[type |-> "folder", name |-> "Synced",
                          children |-> create_chrome_tree(merged_tree)]>>
              /\ \A root \in {"bookmark_bar", "other", "synced"} \ {anchor} :
                    chrome_file.doc.roots[root].children = OrigChromeChildren(root)

\* C9 (amended): after a successful run the root Children of the Safari
\* document is the rebuilt merged tree and the children of Chrome's
\* bookmark_bar root is the rebuilt merged tree, the children of Chrome's
\* other and synced roots are empty; the merged tree is the merge of what was
\* extracted from Safari's Children and from bookmark_bar followed by other.
\* No "Synced" container is made and the earlier entries of these four lists
\* are not kept.  Every other key of the two documents and of the Chrome roots
\* is as it was.
C9_ChildrenReplaced ==
    pc = "done" =>
        /\ merged_tree =
              merge_bookmark_trees(
                  extract_safari_bookmarks(OrigSafariChildren),
                  extract_chrome_bookmarks(OrigChromeChildren("bookmark_bar")
                                           \o OrigChromeChildren("other")))
        /\ safari_file.kind = "doc"
        /\ safari_file.doc.Children = create_safari_tree(merged_tree)
        /\ DOMAIN safari_file.doc = DOMAIN safari_orig.doc \cup {"Children"}
        /\ \A k \in DOMAIN safari_orig.doc \ {"Children"} :
              safari_file.doc[k] = safari_orig.doc[k]
        /\ chrome_file.kind = "doc"
        /\ chrome_file.doc.roots.bookmark_bar.children = create_chrome_tree(merged_tree)
        /\ chrome_file.doc.roots.other.children = <<>>
        /\ chrome_file.doc.roots.synced.children = <<>>
        /\ DOMAIN chrome_file.doc = DOMAIN chrome_orig.doc
        /\ \A k \in DOMAIN chrome_orig.doc \ {"roots"} :
              chrome_file.doc[k] = chrome_orig.doc[k]
        /\ DOMAIN chrome_file.doc.roots = DOMAIN chrome_orig.doc.roots
        /\ \A root \in DOMAIN chrome_orig.doc.roots :
              /\ DOMAIN chrome_file.doc.roots[root]
                    = DOMAIN chrome_orig.doc.roots[root] \cup {"children"}
              /\ \A k \in DOMAIN chrome_orig.doc.roots[root] \ {"children"} :
                    chrome_file.doc.roots[root][k] = chrome_orig.doc.roots[root][k]

\* a successful run over files that held entries in Safari's Children and in
\* Chrome's other and synced roots
C9_Witness ==
    /\ pc = "done"
    /\ OrigSafariChildren # <<>>
    /\ OrigChromeChildren("other") # <<>>
    /\ OrigChromeChildren("synced") # <<>>
    /\ merged_tree # <<>>
    /\ safari_file.doc.Children = create_safari_tree(merged_tree)
    /\ chrome_file.doc.roots.synced.children = <<>>

====
